---- MODULE Spec2Model ----
(***************************************************************************)
(* Binary search tree of ajagara/binary-tree.py: the TreeNode heap, the    *)
(* BST.insert mutator, the four traversals and the utilities derived from  *)
(* them (validate_bst, serialize_tree, calculate_tree_size,                *)
(* print_tree_by_levels).                                                  *)
(*                                                                         *)
(* TreeNode objects live in the sequence `nodes`; a reference to a node is *)
(* its index in that sequence and None is 0.  The recursive helpers are    *)
(* RECURSIVE operators over a heap h; the two queue loops                  *)
(* (level_order_traversal, print_tree_by_levels) are run one iteration per *)
(* step.                                                                   *)
(***************************************************************************)
EXTENDS Integers, Sequences, FiniteSets, TLC

VARIABLES root, nodes, pc, out, queue, result, current_level, level_nodes,
          printed, other

vars == <<root, nodes, pc, out, queue, result, current_level, level_nodes,
          printed, other>>

\* Bounds of the model.
MaxNodes == 5
MaxVal == 3
MaxSerNodes == 3

Values == 1..MaxVal
\* Values of the serialization check: one- and two-digit integers, so that
\* the rendering of a value can be a prefix of the rendering of another.
SerValues == {1, 11}

None == 0

\* TreeNode.__init__
TreeNode(val, left, right) == [val |-> val, left |-> left, right |-> right]

NoOut == [fn |-> "none", value |-> <<>>]

EmptyTree == [root |-> None, nodes |-> <<>>]

----------------------------------------------------------------------------
(* BST.insert *)

\* Variant of _insert_recursive that sends equal values to the left.
RECURSIVE insert_recursive_ties_left(_, _, _)
insert_recursive_ties_left(h, node, val) ==
    IF node = None
    THEN [heap |-> Append(h, TreeNode(val, None, None)), ret |-> Len(h) + 1]
    ELSE IF val <= h[node].val
         THEN LET r == insert_recursive_ties_left(h, h[node].left, val)
              IN [heap |-> [r.heap EXCEPT ![node].left = r.ret], ret |-> node]
         ELSE LET r == insert_recursive_ties_left(h, h[node].right, val)
              IN [heap |-> [r.heap EXCEPT ![node].right = r.ret], ret |-> node]

\* Variant of _insert_recursive that does not descend: the new leaf is
\* attached to the child link of the node it is first compared with, whatever
\* that link held.
insert_recursive_overwrite(h, node, val) ==
    IF node = None
    THEN [heap |-> Append(h, TreeNode(val, None, None)), ret |-> Len(h) + 1]
    ELSE IF val < h[node].val
         THEN [heap |-> Append([h EXCEPT ![node].left = Len(h) + 1],
                               TreeNode(val, None, None)),
               ret |-> node]
         ELSE [heap |-> Append([h EXCEPT ![node].right = Len(h) + 1],
                               TreeNode(val, None, None)),
               ret |-> node]

\* BST._insert_recursive: returns the heap after the call and the returned
\* reference.
RECURSIVE insert_recursive(_, _, _)
insert_recursive(h, node, val) ==
    IF node = None
    THEN [heap |-> Append(h, TreeNode(val, None, None)), ret |-> Len(h) + 1]
    ELSE IF val < h[node].val
         THEN LET r == insert_recursive(h, h[node].left, val)
              IN [heap |-> [r.heap EXCEPT ![node].left = r.ret], ret |-> node]
         ELSE LET r == insert_recursive(h, h[node].right, val)
              IN [heap |-> [r.heap EXCEPT ![node].right = r.ret], ret |-> node]

----------------------------------------------------------------------------
(* Recursive traversals.  Each helper returns the sequence of nodes at     *)
(* which its result.append(node.val) executes; the traversal returns the   *)
(* values appended.                                                        *)

ValuesOf(h, visit) == [i \in 1..Len(visit) |-> h[visit[i]].val]

\* Variant of inorder_helper that visits the right subtree first.
RECURSIVE inorder_helper_right_first(_, _)
inorder_helper_right_first(h, node) ==
    IF node # None
    THEN inorder_helper_right_first(h, h[node].right) \o <<node>>
         \o inorder_helper_right_first(h, h[node].left)
    ELSE <<>>

RECURSIVE inorder_helper(_, _)
inorder_helper(h, node) ==
    IF node # None
    THEN inorder_helper(h, h[node].left) \o <<node>>
         \o inorder_helper(h, h[node].right)
    ELSE <<>>

inorder_traversal(h, r) == ValuesOf(h, inorder_helper(h, r))

RECURSIVE preorder_helper(_, _)
preorder_helper(h, node) ==
    IF node # None
    THEN <<node>> \o preorder_helper(h, h[node].left)
         \o preorder_helper(h, h[node].right)
    ELSE <<>>

preorder_traversal(h, r) == ValuesOf(h, preorder_helper(h, r))

\* Variant of postorder_helper that appends the node before its right
\* subtree.
RECURSIVE postorder_helper_early(_, _)
postorder_helper_early(h, node) ==
    IF node # None
    THEN postorder_helper_early(h, h[node].left) \o <<node>>
         \o postorder_helper_early(h, h[node].right)
    ELSE <<>>

RECURSIVE postorder_helper(_, _)
postorder_helper(h, node) ==
    IF node # None
    THEN postorder_helper(h, h[node].left)
         \o postorder_helper(h, h[node].right) \o <<node>>
    ELSE <<>>

postorder_traversal(h, r) == ValuesOf(h, postorder_helper(h, r))

----------------------------------------------------------------------------
(* level_order_traversal: one iteration of the while loop, and the loop.   *)

\* Variant of the loop body that enqueues the right child first.
level_order_body_right_first(h, st) ==
    LET node == Head(st.queue)
        q0 == Tail(st.queue)
        q1 == IF h[node].right # None THEN Append(q0, h[node].right) ELSE q0
        q2 == IF h[node].left # None THEN Append(q1, h[node].left) ELSE q1
    IN [queue |-> q2, result |-> Append(st.result, h[node].val)]

level_order_body(h, st) ==
    LET node == Head(st.queue)
        q0 == Tail(st.queue)
        q1 == IF h[node].left # None THEN Append(q0, h[node].left) ELSE q0
        q2 == IF h[node].right # None THEN Append(q1, h[node].right) ELSE q1
    IN [queue |-> q2, result |-> Append(st.result, h[node].val)]

RECURSIVE level_order_loop(_, _)
level_order_loop(h, st) ==
    IF st.queue # <<>> THEN level_order_loop(h, level_order_body(h, st))
    ELSE st.result

level_order_traversal(h, r) ==
    IF r = None THEN <<>>
    ELSE level_order_loop(h, [queue |-> <<r>>, result |-> <<>>])

----------------------------------------------------------------------------
(* validate_bst, calculate_tree_size *)

\* Variant of validate_bst that accepts adjacent equal values.
validate_bst_non_strict(h, r) ==
    LET inorder_vals == inorder_traversal(h, r)
    IN ~ \E i \in 2..Len(inorder_vals) : inorder_vals[i] < inorder_vals[i-1]

validate_bst(h, r) ==
    LET inorder_vals == inorder_traversal(h, r)
    IN ~ \E i \in 2..Len(inorder_vals) : inorder_vals[i] <= inorder_vals[i-1]

\* Variant of size_helper that does not count the nodes of the right subtree.
RECURSIVE size_helper_left_only(_, _)
size_helper_left_only(h, node) ==
    IF node = None THEN 0
    ELSE LET left_size == size_helper_left_only(h, h[node].left)
         IN left_size + 1

RECURSIVE size_helper(_, _)
size_helper(h, node) ==
    IF node = None THEN 0
    ELSE LET left_size == size_helper(h, h[node].left)
             right_size == size_helper(h, h[node].right)
         IN left_size + right_size + 1

calculate_tree_size(h, r) == size_helper(h, r)

----------------------------------------------------------------------------
(* serialize_tree.  A string is the sequence of its characters.            *)

Digit(d) == <<"0", "1", "2", "3", "4", "5", "6", "7", "8", "9">>[d + 1]

RECURSIVE NatToStr(_)
NatToStr(n) ==
    IF n < 10 THEN <<Digit(n)>>
    ELSE NatToStr(n \div 10) \o <<Digit(n % 10)>>

\* The rendering of an integer by an f-string.
IntToStr(v) == IF v < 0 THEN <<"-">> \o NatToStr(-v) ELSE NatToStr(v)

\* Variant of serialize_helper that writes nothing for an absent child.
RECURSIVE serialize_helper_no_null(_, _)
serialize_helper_no_null(h, node) ==
    IF node = None THEN <<>>
    ELSE LET l == serialize_helper_no_null(h, h[node].left)
             r == serialize_helper_no_null(h, h[node].right)
         IN IntToStr(h[node].val)
            \o (IF l = <<>> THEN <<>> ELSE <<",">> \o l)
            \o (IF r = <<>> THEN <<>> ELSE <<",">> \o r)

RECURSIVE serialize_helper(_, _)
serialize_helper(h, node) ==
    IF node = None THEN <<"n", "u", "l", "l">>
    ELSE IntToStr(h[node].val) \o <<",">> \o serialize_helper(h, h[node].left)
         \o <<",">> \o serialize_helper(h, h[node].right)

serialize_tree(h, r) == serialize_helper(h, r)

----------------------------------------------------------------------------
(* print_tree_by_levels: one iteration of the while loop.  `printed` is    *)
(* the sequence of lines written, each a level label and a list of values. *)

Line(level, vals) == [level |-> level, nodes |-> vals]

\* Variant of the loop body that does not start a new list at a new level.
print_body_no_reset(h, st) ==
    LET node == Head(st.queue)[1]
        level == Head(st.queue)[2]
        q0 == Tail(st.queue)
        flush == level # st.current_level
        q1 == IF h[node].left # None
              THEN Append(q0, <<h[node].left, level + 1>>) ELSE q0
        q2 == IF h[node].right # None
              THEN Append(q1, <<h[node].right, level + 1>>) ELSE q1
    IN [queue |-> q2,
        current_level |-> IF flush THEN level ELSE st.current_level,
        level_nodes |-> Append(st.level_nodes, h[node].val),
        printed |-> IF flush
                    THEN Append(st.printed, Line(st.current_level, st.level_nodes))
                    ELSE st.printed]

print_body(h, st) ==
    LET node == Head(st.queue)[1]
        level == Head(st.queue)[2]
        q0 == Tail(st.queue)
        flush == level # st.current_level
        q1 == IF h[node].left # None
              THEN Append(q0, <<h[node].left, level + 1>>) ELSE q0
        q2 == IF h[node].right # None
              THEN Append(q1, <<h[node].right, level + 1>>) ELSE q1
    IN [queue |-> q2,
        current_level |-> IF flush THEN level ELSE st.current_level,
        level_nodes |-> Append(IF flush THEN <<>> ELSE st.level_nodes,
                               h[node].val),
        printed |-> IF flush
                    THEN Append(st.printed, Line(st.current_level, st.level_nodes))
                    ELSE st.printed]

----------------------------------------------------------------------------
(* State machine: a caller that builds a tree by insertions and calls the  *)
(* functions on its root, one call at a time.                              *)

Init ==
    /\ root = None
    /\ nodes = <<>>
    /\ pc = "idle"
    /\ out = NoOut
    /\ queue = <<>>
    /\ result = <<>>
    /\ current_level = 0
    /\ level_nodes = <<>>
    /\ printed = <<>>
    /\ other = EmptyTree

Locals == <<queue, result, current_level, level_nodes, printed>>

\* BST.insert
Insert(val) ==
    /\ pc = "idle"
    /\ Len(nodes) < MaxNodes
    /\ LET r == insert_recursive(nodes, root, val)
       IN /\ nodes' = r.heap
          /\ root' = r.ret
    /\ UNCHANGED <<pc, out, Locals, other>>

Return(fn, value) ==
    /\ out' = [fn |-> fn, value |-> value]
    /\ pc' = "returned"

InorderCall ==
    /\ pc = "idle"
    /\ Return("inorder", inorder_traversal(nodes, root))
    /\ UNCHANGED <<root, nodes, Locals, other>>

PreorderCall ==
    /\ pc = "idle"
    /\ Return("preorder", preorder_traversal(nodes, root))
    /\ UNCHANGED <<root, nodes, Locals, other>>

PostorderCall ==
    /\ pc = "idle"
    /\ Return("postorder", postorder_traversal(nodes, root))
    /\ UNCHANGED <<root, nodes, Locals, other>>

ValidateCall ==
    /\ pc = "idle"
    /\ Return("validate", validate_bst(nodes, root))
    /\ UNCHANGED <<root, nodes, Locals, other>>

SerializeCall ==
    /\ pc = "idle"
    /\ Return("serialize", serialize_tree(nodes, root))
    /\ UNCHANGED <<root, nodes, Locals, other>>

SizeCall ==
    /\ pc = "idle"
    /\ Return("size", calculate_tree_size(nodes, root))
    /\ UNCHANGED <<root, nodes, Locals, other>>

\* level_order_traversal up to the first test of the while loop.
LevelOrderCall ==
    /\ pc = "idle"
    /\ IF root = None
       THEN /\ Return("level_order", <<>>)
            /\ UNCHANGED <<queue, result>>
       ELSE /\ queue' = <<root>>
            /\ result' = <<>>
            /\ pc' = "level_order"
            /\ UNCHANGED out
    /\ UNCHANGED <<root, nodes, current_level, level_nodes, printed, other>>

LevelOrderStep ==
    /\ pc = "level_order"
    /\ queue # <<>>
    /\ LET st == level_order_body(nodes, [queue |-> queue, result |-> result])
       IN /\ queue' = st.queue
          /\ result' = st.result
    /\ UNCHANGED <<root, nodes, pc, out, current_level, level_nodes, printed,
                   other>>

LevelOrderReturn ==
    /\ pc = "level_order"
    /\ queue = <<>>
    /\ Return("level_order", result)
    /\ UNCHANGED <<root, nodes, Locals, other>>

\* print_tree_by_levels up to the first test of the while loop.
PrintCall ==
    /\ pc = "idle"
    /\ IF root = None
       THEN /\ Return("print", <<>>)
            /\ UNCHANGED <<queue, current_level, level_nodes, printed>>
       ELSE /\ queue' = << <<root, 0>> >>
            /\ current_level' = 0
            /\ level_nodes' = <<>>
            /\ printed' = <<>>
            /\ pc' = "print"
            /\ UNCHANGED out
    /\ UNCHANGED <<root, nodes, result, other>>

PrintStep ==
    /\ pc = "print"
    /\ queue # <<>>
    /\ LET st == print_body(nodes, [queue |-> queue,
                                    current_level |-> current_level,
                                    level_nodes |-> level_nodes,
                                    printed |-> printed])
       IN /\ queue' = st.queue
          /\ current_level' = st.current_level
          /\ level_nodes' = st.level_nodes
          /\ printed' = st.printed
    /\ UNCHANGED <<root, nodes, pc, out, result, other>>

\* The print after the loop; the lines written are the observable result.
PrintReturn ==
    /\ pc = "print"
    /\ queue = <<>>
    /\ printed' = Append(printed, Line(current_level, level_nodes))
    /\ Return("print", printed')
    /\ UNCHANGED <<root, nodes, queue, result, current_level, level_nodes,
                   other>>

\* The caller takes the result; the locals of the call are gone.
Resume ==
    /\ pc = "returned"
    /\ pc' = "idle"
    /\ out' = NoOut
    /\ queue' = <<>>
    /\ result' = <<>>
    /\ current_level' = 0
    /\ level_nodes' = <<>>
    /\ printed' = <<>>
    /\ UNCHANGED <<root, nodes, other>>

Next ==
    \/ \E val \in Values : Insert(val)
    \/ InorderCall
    \/ PreorderCall
    \/ PostorderCall
    \/ ValidateCall
    \/ SerializeCall
    \/ SizeCall
    \/ LevelOrderCall
    \/ LevelOrderStep
    \/ LevelOrderReturn
    \/ PrintCall
    \/ PrintStep
    \/ PrintReturn
    \/ Resume

Spec == Init /\ [][Next]_vars

\* The queue loop is run to completion once entered: no suspension points.
FairSpec == Spec /\ WF_vars(LevelOrderStep) /\ WF_vars(LevelOrderReturn)

----------------------------------------------------------------------------
(* Serialization of arbitrary trees.  TreeNode(val, left, right) and the   *)
(* public left/right attributes let a caller build any binary tree, not    *)
(* only the ones BST.insert makes; serialize_tree is applied to two of     *)
(* them.                                                                   *)

\* The trees made from t by hanging a new leaf holding val on an empty link.
Attach(t, val) ==
    LET n == Len(t.nodes)
        leaf == TreeNode(val, None, None)
    IN IF t.root = None
       THEN {[root |-> 1, nodes |-> <<leaf>>]}
       ELSE {[root |-> t.root,
              nodes |-> Append([t.nodes EXCEPT ![i].left = n + 1], leaf)] :
                 i \in {j \in 1..n : t.nodes[j].left = None}}
            \cup
            {[root |-> t.root,
              nodes |-> Append([t.nodes EXCEPT ![i].right = n + 1], leaf)] :
                 i \in {j \in 1..n : t.nodes[j].right = None}}

RECURSIVE TreesUpTo(_)
TreesUpTo(k) ==
    IF k = 0 THEN {EmptyTree}
    ELSE LET T == TreesUpTo(k - 1)
         IN T \cup UNION {Attach(t, val) : t \in T, val \in SerValues}

InitSer ==
    /\ \E t \in TreesUpTo(MaxSerNodes) : root = t.root /\ nodes = t.nodes
    /\ other \in TreesUpTo(MaxSerNodes)
    /\ pc = "idle"
    /\ out = NoOut
    /\ queue = <<>>
    /\ result = <<>>
    /\ current_level = 0
    /\ level_nodes = <<>>
    /\ printed = <<>>

\* serialize_tree called on both trees.
SerializePair ==
    /\ pc = "idle"
    /\ Return("serialize_pair", <<serialize_tree(nodes, root),
                                  serialize_tree(other.nodes, other.root)>>)
    /\ UNCHANGED <<root, nodes, Locals, other>>

NextSer == SerializePair

SpecSer == InitSer /\ [][NextSer]_vars

----------------------------------------------------------------------------
(* Vocabulary of the properties.                                           *)

\* The nodes of the subtree at node (empty for None).
RECURSIVE Subtree(_, _)
Subtree(h, node) ==
    IF node = None THEN {}
    ELSE {node} \cup Subtree(h, h[node].left) \cup Subtree(h, h[node].right)

IsChild(h, p, n) == h[p].left = n \/ h[p].right = n

Parent(h, n) == CHOOSE p \in 1..Len(h) : IsChild(h, p, n)

RECURSIVE Depth(_, _, _)
Depth(h, r, n) == IF n = r THEN 0 ELSE 1 + Depth(h, r, Parent(h, n))

Pos(seq, n) == CHOOSE i \in 1..Len(seq) : seq[i] = n

Range(seq) == {seq[i] : i \in 1..Len(seq)}

NonDecreasing(seq) == \A i \in 2..Len(seq) : seq[i] >= seq[i-1]

StrictlyIncreasing(seq) == \A i \in 2..Len(seq) : seq[i] > seq[i-1]

ChildrenSeq(h, n) ==
    (IF h[n].left # None THEN <<h[n].left>> ELSE <<>>)
    \o (IF h[n].right # None THEN <<h[n].right>> ELSE <<>>)

RECURSIVE ChildrenOfAll(_, _)
ChildrenOfAll(h, seq) ==
    IF seq = <<>> THEN <<>>
    ELSE ChildrenSeq(h, Head(seq)) \o ChildrenOfAll(h, Tail(seq))

\* The nodes at depth k, left to right.
RECURSIVE LevelNodes(_, _, _)
LevelNodes(h, r, k) ==
    IF r = None THEN <<>>
    ELSE IF k = 0 THEN <<r>>
    ELSE ChildrenOfAll(h, LevelNodes(h, r, k - 1))

RECURSIVE LevelsFrom(_, _, _)
LevelsFrom(h, r, k) ==
    IF LevelNodes(h, r, k) = <<>> THEN <<>>
    ELSE LevelNodes(h, r, k) \o LevelsFrom(h, r, k + 1)

\* The nodes level by level, each level left to right.
BFSOrder(h, r) == LevelsFrom(h, r, 0)

\* seq lists every node of the tree once, by non-decreasing depth, and
\* within a depth by the position of the parent, left child before right.
IsBFSOrder(h, r, seq) ==
    /\ Len(seq) = Cardinality(Subtree(h, r))
    /\ Range(seq) = Subtree(h, r)
    /\ \A i, j \in 1..Len(seq) : i < j =>
         /\ Depth(h, r, seq[i]) <= Depth(h, r, seq[j])
         /\ (Depth(h, r, seq[i]) = Depth(h, r, seq[j])) =>
               LET pi == Parent(h, seq[i])
                   pj == Parent(h, seq[j])
               IN \/ Pos(seq, pi) < Pos(seq, pj)
                  \/ pi = pj /\ h[pi].left = seq[i] /\ h[pi].right = seq[j]

RECURSIVE Concat(_)
Concat(lines) ==
    IF lines = <<>> THEN <<>> ELSE Head(lines).nodes \o Concat(Tail(lines))

\* Same shape, empty children included, and same value at every node.
RECURSIVE SameTree(_, _, _, _)
SameTree(h1, a, h2, b) ==
    IF a = None \/ b = None THEN a = None /\ b = None
    ELSE /\ h1[a].val = h2[b].val
         /\ SameTree(h1, h1[a].left, h2, h2[b].left)
         /\ SameTree(h1, h1[a].right, h2, h2[b].right)

----------------------------------------------------------------------------
(* Properties.                                                             *)

C2_InorderSorted ==
    out.fn = "inorder" => NonDecreasing(out.value)

C2_Witness ==
    /\ out.fn = "inorder"
    /\ Len(out.value) >= 4
    /\ \E i \in 2..Len(out.value) : out.value[i] = out.value[i-1]
    /\ \E i \in 2..Len(out.value) : out.value[i] > out.value[i-1]
    /\ nodes[root].left # None
    /\ nodes[root].right # None

\* C3: validate_bst is true exactly when the inorder sequence is strictly
\* increasing; for a tree built by inserts that is exactly when the inserted
\* values are pairwise distinct, and it is true for the empty tree.
C3_ValidateStrict ==
    out.fn = "validate" =>
        /\ out.value = StrictlyIncreasing(inorder_traversal(nodes, root))
        /\ out.value = (\A i, j \in 1..Len(nodes) :
                            i # j => nodes[i].val # nodes[j].val)
        /\ (root = None => out.value = TRUE)

\* Three distinct values and one of them inserted again: rejected.
C3_Witness ==
    /\ out.fn = "validate"
    /\ out.value = FALSE
    /\ Cardinality({nodes[i].val : i \in 1..Len(nodes)}) = 3
    /\ Len(nodes) = 4

\* The links of a heap that refer to node n: the root link and the child
\* links.
LinksTo(r, h, n) ==
    (IF r = n THEN {<<"root", 0>>} ELSE {})
    \cup {<<"left", i>> : i \in {j \in 1..Len(h) : h[j].left = n}}
    \cup {<<"right", i>> : i \in {j \in 1..Len(h) : h[j].right = n}}

InsertFrame(val) ==
    LET new == Len(nodes')
    IN /\ Len(nodes') = Len(nodes) + 1
       /\ nodes'[new] = TreeNode(val, None, None)
       /\ \A i \in 1..Len(nodes) :
            /\ nodes'[i].val = nodes[i].val
            /\ nodes'[i].left = (IF nodes[i].left # None THEN nodes[i].left
                                 ELSE IF <<"left", i>> \in LinksTo(root', nodes', new)
                                      THEN new ELSE None)
            /\ nodes'[i].right = (IF nodes[i].right # None THEN nodes[i].right
                                  ELSE IF <<"right", i>> \in LinksTo(root', nodes', new)
                                       THEN new ELSE None)
       /\ root' = (IF root # None THEN root ELSE new)
       /\ Cardinality(LinksTo(root', nodes', new)) = 1

\* C4: an insert adds exactly one node, a leaf holding val, on a link that
\* was empty; the nodes that existed keep their values, the occupied links
\* keep their targets and the root, once set, stays.
C4_InsertFrame ==
    [][\A val \in Values : Insert(val) => InsertFrame(val)]_vars

\* The last node allocated sits three links below the root.
C4_Witness ==
    /\ Len(nodes) >= 4
    /\ root # None
    /\ Depth(nodes, root, Len(nodes)) >= 3

C6_SizeConsistency ==
    out.fn = "size" =>
        /\ out.value = Len(inorder_traversal(nodes, root))
        /\ out.value = Len(preorder_traversal(nodes, root))
        /\ (root = None =>
               /\ out.value = 0
               /\ inorder_traversal(nodes, root) = <<>>
               /\ preorder_traversal(nodes, root) = <<>>)

C6_Witness ==
    /\ out.fn = "size"
    /\ out.value >= 4
    /\ \E n \in Subtree(nodes, root) :
           /\ nodes[n].left # None
           /\ nodes[n].right # None
           /\ nodes[nodes[n].right].right # None

\* C7: for a non-empty tree the lines print_tree_by_levels writes, taken in
\* order, concatenate to level_order_traversal(root); they are labelled
\* 0, 1, 2, ... and the line labelled k lists the values of the nodes at
\* depth k.
C7_LevelGroups ==
    (pc = "returned" /\ out.fn = "print" /\ root # None) =>
        /\ Concat(out.value) = level_order_traversal(nodes, root)
        /\ \A k \in 1..Len(out.value) :
             /\ out.value[k].level = k - 1
             /\ out.value[k].nodes = ValuesOf(nodes, LevelNodes(nodes, root, k - 1))
        /\ Len(out.value) >= 1
        /\ LevelNodes(nodes, root, Len(out.value)) = <<>>

\* Three levels, two nodes on the second.
C7_Witness ==
    /\ pc = "returned"
    /\ out.fn = "print"
    /\ Len(out.value) = 3
    /\ Len(out.value[2].nodes) = 2
    /\ Len(out.value[3].nodes) >= 1

\* C8: the queue loop of level_order_traversal terminates, and its result
\* lists the value of every node once, level by level, within a level by
\* the position of the parent and left child before right; the empty tree
\* gives the empty sequence.
C8_LevelOrderBFS ==
    /\ (pc = "level_order") ~> (pc = "returned" /\ out.fn = "level_order")
    /\ [](out.fn = "level_order" =>
            /\ IsBFSOrder(nodes, root, BFSOrder(nodes, root))
            /\ out.value = ValuesOf(nodes, BFSOrder(nodes, root))
            /\ (root = None => out.value = <<>>))

C8_Witness ==
    /\ out.fn = "level_order"
    /\ Len(out.value) >= 4
    /\ Len(LevelNodes(nodes, root, 1)) = 2
    /\ Len(LevelNodes(nodes, root, 2)) >= 2

\* C9: in the postorder traversal of a non-empty tree every node comes after
\* all nodes of its left and right subtrees, the left subtree's before the
\* right subtree's, and the root's value is the last element.
C9_PostorderChildrenFirst ==
    (out.fn = "postorder" /\ root # None) =>
        LET visit == postorder_helper(nodes, root)
        IN /\ out.value = ValuesOf(nodes, visit)
           /\ Len(visit) = Cardinality(Subtree(nodes, root))
           /\ Range(visit) = Subtree(nodes, root)
           /\ \A n \in Subtree(nodes, root) :
                LET L == Subtree(nodes, nodes[n].left)
                    R == Subtree(nodes, nodes[n].right)
                IN /\ \A d \in L \cup R : Pos(visit, d) < Pos(visit, n)
                   /\ \A a \in L : \A b \in R : Pos(visit, a) < Pos(visit, b)
           /\ out.value[Len(out.value)] = nodes[root].val

C9_Witness ==
    /\ out.fn = "postorder"
    /\ Len(out.value) >= 4
    /\ nodes[root].left # None
    /\ nodes[root].right # None
    /\ nodes[nodes[root].right].left # None

\* C10: serialize_tree writes null for an empty subtree and
\* value,left,right for a node, and two trees with the same serialization
\* have the same shape, empty children included, and the same values.
C10_SerializeInjective ==
    out.fn = "serialize_pair" =>
        /\ (root = None => out.value[1] = <<"n", "u", "l", "l">>)
        /\ (root # None =>
               out.value[1] = IntToStr(nodes[root].val) \o <<",">>
                              \o serialize_tree(nodes, nodes[root].left)
                              \o <<",">>
                              \o serialize_tree(nodes, nodes[root].right))
        /\ (out.value[1] = out.value[2] =>
               SameTree(nodes, root, other.nodes, other.root))
        /\ (SameTree(nodes, root, other.nodes, other.root) =>
               out.value[1] = out.value[2])

\* Two three-node trees numbered differently with one serialization.
C10_Witness ==
    /\ out.fn = "serialize_pair"
    /\ out.value[1] = out.value[2]
    /\ Len(nodes) = 3
    /\ nodes # other.nodes
    /\ \E i \in 1..3 : nodes[i].val = 11
    /\ \E i \in 1..3 : nodes[i].val = 1

====
